---- MODULE Spec2Model ----
(***************************************************************************)
(* RobustChannel of aio_pika (src/aio_pika/robust_channel.py) as a state   *)
(* machine.  The channel runs on a single-threaded cooperative event loop: *)
(* every action below is the code one coroutine executes between two       *)
(* suspension points (an await that has to wait for the broker, for the    *)
(* closing signal or for a recovery hook).                                 *)
(*                                                                         *)
(* The base class Channel, BaseChannel, FutureStore and the robust         *)
(* entities are not part of robust_channel.py; their primitives are        *)
(* modelled from the design document: the definitions named Base..,       *)
(* reject_all, is_closed, ChannelClosed and Sibling...                     *)
(***************************************************************************)
EXTENDS Integers, Sequences, FiniteSets, TLC

\* ------------------------------------------------------------------ bounds
MaxOps == 3         \* operations invoked on the channel in one behaviour
MaxGen == 2         \* queue names the broker generates in one behaviour

Tasks == {1, 2}                     \* coroutine slots: any operation may overlap any other
SiblingOps == {101}                 \* operations of a sibling channel B
Chans == {"A", "B"}                 \* A is the channel modelled in full
Stores == {"root"} \cup Chans       \* the connection's registry and its children
ChanNums == {1, 2}                  \* channel numbers a connection hands out
PrefetchCounts == {0, 1}
PrefetchSizes == {0, 2}
ExchangeNames == {"x1"}
NoName == ""                        \* declare_queue(name=None)
QueueNames == {"q1"}
GenNames == <<"amq.gen-1", "amq.gen-2", "amq.gen-3", "amq.gen-4">>

VARIABLES
    closed,          \* self._closed
    exchanges,       \* self._exchanges: a dict, as its entry table and its room
    queues,          \* self._queues
    qos,             \* self._qos = <<prefetch_count, prefetch_size>>
    connection,      \* self._connection (connections are numbered as they are made)
    channel_number,  \* self._channel_number
    channel,         \* self._channel: the underlying handle, NoChannel for None
    closings,        \* every closing signal made so far; self._closing is the last
    write_lock,      \* self._write_lock: the task holding it, 0 when free
    futures,         \* pending-operation registry of each channel (child stores)
    rejected,        \* futures resolved with connection-lost, not yet consumed
    task,            \* the coroutines: operation, position, arguments, locals
    gen,             \* broker-side counter of generated queue names
    nops,            \* operations invoked so far
    closeReqs,       \* history: underlying close requests issued
    closeCalls,      \* history: close() has been called
    qosReq,          \* history: the pair of the latest set_qos(p, q) of the
                     \* application, and the coroutine it is in flight in (or 0)
    exDeclared,      \* history: exchanges declared recoverable and not deleted since
    deleted,         \* history: entities deleted and not declared again since
    ev               \* history: what the last step consumed, called and returned

vars == <<closed, exchanges, queues, qos, connection, channel_number, channel,
          closings, write_lock, futures, rejected, task, gen, nops,
          closeReqs, closeCalls, qosReq, exDeclared, deleted, ev>>

\* ------------------------------------------------------------------ values
NoChannel == [conn |-> -1, num |-> 0, st |-> "none"]

Call(kind, name, p, q) == [kind |-> kind, name |-> name, p |-> p, q |-> q]

\* A coroutine: the operation it runs, the await it is suspended at (pc),
\* the outcome of the await it completed last (got), its arguments and locals
\* (p and q are the numbers of the request in flight: the QoS pair, or the
\* connection and channel number of an open or close; pos, used and len are
\* the dict iterator of a replay loop).  History kept with it:
\* late (close() had been called before; for a replay: close() had completed
\* before it began), sig (the closing signal a close() waits on; for a replay:
\* the one it installed), log (the hooks a replay has invoked) and gone (the
\* entities that were deleted when a replay began).
Idle == [op |-> "none", pc |-> "idle", got |-> "none", name |-> "", p |-> 0,
         q |-> 0, all_channels |-> FALSE, internal |-> FALSE, robust |-> FALSE,
         late |-> FALSE, sig |-> 0, pos |-> 0, used |-> 0, len |-> 0,
         log |-> <<>>, gone |-> {}]

\* What the operation that ended in the last step, if one did, returned: it
\* was suspended at `at`,
\* the await there gave `got`, and it returned `res` ("ok" or the error it
\* raised) with value `ret`; all_channels is kept for set_qos.
NoEvent == [op |-> "none", at |-> "idle", got |-> "none", res |-> "none",
            ret |-> "", robust |-> FALSE, late |-> FALSE, all_channels |-> FALSE]

Event(tk, op, got, res, ret) ==
    [op |-> op, at |-> tk.pc, got |-> got, res |-> res, ret |-> ret,
     robust |-> tk.robust, late |-> tk.late, all_channels |-> tk.all_channels]

\* ------------------------------------------------------------------ dict
\* A Python dict as CPython 3.11 lays it out.  entries is the entry table, in
\* insertion order: pop() leaves a dead slot behind and a new key is appended.
\* usable is the number of slots the table can still take (dk_usable) and
\* general says that the table holds a key that is not a str (None).  When a
\* new key finds no usable slot, or a key that is not a str comes to a table
\* of str keys, the table is rebuilt without its dead slots, so positions
\* shift under an iterator in flight.  dict() has no table yet.
EmptyDict == [entries |-> <<>>, usable |-> 0, general |-> FALSE]

DeadEntry == [k |-> "", v |-> "", live |-> FALSE]

IsLive(e) == e.live

DictSlots(d, k) ==
    {i \in 1..Len(d.entries) : d.entries[i].live /\ d.entries[i].k = k}

DictHas(d, k) == DictSlots(d, k) # {}

DictKeys(d) == {d.entries[i].k : i \in {j \in 1..Len(d.entries) : d.entries[j].live}}

\* ma_used
DictUsed(d) == Cardinality({i \in 1..Len(d.entries) : d.entries[i].live})

\* calculate_log2_keysize(GROWTH_RATE): the smallest power of two, 8 at
\* least, that is not below (3 * used) | 8
KeysSize(used) ==
    LET m == 3 * used
        w == IF (m \div 8) % 2 = 1 THEN m ELSE m + 8
        sizes == {8, 16, 32, 64, 128}
    IN  CHOOSE p \in sizes : p >= w /\ \A r \in sizes : r >= w => p <= r

\* USABLE_FRACTION
USABLE_FRACTION(n) == (2 * n) \div 3

\* dictresize: a new table with the live entries only
dictresize(d, general) ==
    [entries |-> SelectSeq(d.entries, IsLive),
     usable  |-> USABLE_FRACTION(KeysSize(DictUsed(d))) - DictUsed(d),
     general |-> general]

\* d[k] = v
DictSet(d, k, v) ==
    LET d1 == IF k = NoName /\ ~d.general THEN dictresize(d, TRUE) ELSE d
        d2 == IF d1.usable <= 0 THEN dictresize(d1, d1.general) ELSE d1
    IN  IF DictHas(d1, k)
        THEN [d1 EXCEPT !.entries =
                 [i \in 1..Len(@) |-> IF @[i].live /\ @[i].k = k
                                      THEN [k |-> k, v |-> v, live |-> TRUE]
                                      ELSE @[i]]]
        ELSE [d2 EXCEPT !.entries = Append(@, [k |-> k, v |-> v, live |-> TRUE]),
                        !.usable = @ - 1]

\* d.pop(k, None)
DictPop(d, k) ==
    [d EXCEPT !.entries =
        [i \in 1..Len(@) |-> IF @[i].live /\ @[i].k = k THEN DeadEntry ELSE @[i]]]

\* the first live slot after position pos, 0 when the table is exhausted
NextLive(d, pos) ==
    LET later == {i \in 1..Len(d.entries) : i > pos /\ d.entries[i].live}
    IN  IF later = {} THEN 0 ELSE CHOOSE i \in later : \A j \in later : i <= j


\* ------------------------------------------------------------------ registry
\* the channel registering straight into the connection's registry
future_store_shared == "root"

\* __init__ hands the base class future_store.get_child(): the channel's
\* registry is a child of the connection's registry, its own and nobody else's.
future_store == "A"

\* FutureStore.get_child: the children of a registry; bulk failure reaches a
\* registry and what is below it, never a sibling.
Subtree(s) == IF s = "root" THEN Stores ELSE {s}

\* FutureStore.reject_all(exc): every operation pending in the registry is
\* resolved with exc and the registry is cleared.
reject_all(s) ==
    [futures  |-> [c \in Stores |-> IF c \in Subtree(s) THEN {} ELSE futures[c]],
     rejected |-> rejected \cup UNION {futures[c] : c \in Subtree(s)}]

\* BaseChannel._create_future: a new pending operation in registry fs
Register(fs, t) == [fs EXCEPT ![future_store] = @ \cup {t}]

\* the awaited future of task t is resolved with outcome o: the broker
\* answered ("ok", "err") or a reconnect rejected it ("lost")
Resolved(t, o) ==
    \/ t \in rejected /\ o = "lost"
    \/ t \in futures[future_store] /\ t \notin rejected /\ o \in {"ok", "err"}

Consume(fs, t) == [c \in Stores |-> fs[c] \ {t}]

\* BaseChannel.is_closed: the current closing signal is resolved
is_closed == closings[Len(closings)] # "pending"

\* the underlying handle can carry a request to the broker
BaseReady(ch, conn) == ch.st = "open" /\ ch.conn = conn

\* ------------------------------------------------------------------ steps
chanRefs == <<connection, channel_number, channel, closings, write_lock>>
maps == <<exchanges, queues>>
closeHist == <<closeReqs, closeCalls>>
mapHist == <<exDeclared, deleted>>

Finish(t, tk, op, got, res, ret) ==
    /\ task' = [task EXCEPT ![t] = Idle]
    /\ ev' = Event(tk, op, got, res, ret)

Suspend(t, tk, op, got, call, pc) ==
    /\ task' = [task EXCEPT ![t] = [tk EXCEPT !.op = op, !.pc = pc, !.got = got,
                                               !.p = call.p, !.q = call.q]]
    /\ ev' = NoEvent

\* A primitive of the base channel: register a pending operation, send the
\* request over the handle and wait for the answer; without a usable handle
\* the call raises at once.  fs is the registry the step has reached.
BaseRequest(t, tk, op, got, call, pc, ready, fs) ==
    IF ready
    THEN futures' = Register(fs, t) /\ Suspend(t, tk, op, got, call, pc)
    ELSE futures' = fs /\ Finish(t, tk, op, got, "nochannel", "")

\* set_qos with the pair stored before all_channels is looked at
set_qos_store_first(t, tk, op, got, p, q, all_channels, ready, fs) ==
    /\ qos' = <<p, q>>
    /\ IF all_channels
       THEN futures' = fs /\ Finish(t, tk, op, got, "unsupported", "")
       ELSE BaseRequest(t, tk, op, got, Call("qos", "", p, q), "qos", ready, fs)

\* set_qos that passes the pair on without recording it
set_qos_unrecorded(t, tk, op, got, p, q, all_channels, ready, fs) ==
    /\ qos' = qos
    /\ IF all_channels
       THEN futures' = fs /\ Finish(t, tk, op, got, "unsupported", "")
       ELSE BaseRequest(t, tk, op, got, Call("qos", "", p, q), "qos", ready, fs)

\* set_qos, lines 95-106, as called by the application and by initialize
set_qos(t, tk, op, got, p, q, all_channels, ready, fs) ==
    IF all_channels
    THEN /\ qos' = qos
         /\ futures' = fs
         /\ Finish(t, tk, op, got, "unsupported", "")
    ELSE /\ qos' = <<p, q>>
         /\ BaseRequest(t, tk, op, got, Call("qos", "", p, q), "qos", ready, fs)

\* a new coroutine runs in the lowest free slot
FreeSlot(t) ==
    /\ task[t].pc = "idle"
    /\ \A u \in Tasks : u < t => task[u].pc # "idle"

\* the application or the connection manager invokes an operation
Starts(t) ==
    /\ FreeSlot(t)
    /\ nops < MaxOps
    /\ nops' = nops + 1


\* ------------------------------------------------------------------ replay
\* lines 80-81: the loop over self._queues.values().  The iterator is at
\* table position pos, saw `used` live entries when it was created and has
\* tk.len of them left to give.  It raises RuntimeError when the dict has
\* another size now, or when it finds an entry although it has given them
\* all; else the hook of the next queue is awaited, or the loop (and
\* on_reconnect) ends.
ReplayQueues(t, tk, got, pos, used) ==
    IF DictUsed(queues) # used
    THEN Finish(t, tk, "on_reconnect", got, "changed", "")
    ELSE LET i == NextLive(queues, pos) IN
         IF i = 0
         THEN Finish(t, tk, "on_reconnect", got, "ok", "")
         ELSE IF tk.len = 0
         THEN Finish(t, tk, "on_reconnect", got, "changed", "")
         ELSE Suspend(t, [tk EXCEPT !.pos = i, !.used = used, !.len = @ - 1,
                                     !.log = Append(@, <<"q", queues.entries[i].v>>)],
                      "on_reconnect", got,
                      Call("qhook", queues.entries[i].v, 0, 0), "qhook")

\* the replay with the queue loop entered at once
ReplayQueuesFirst(t, tk, got, pos, used) ==
    ReplayQueues(t, [tk EXCEPT !.len = DictUsed(queues)], got, 0, DictUsed(queues))

\* lines 77-78: the loop over self._exchanges.values(); when it is exhausted
\* the queue loop starts, with a new iterator, in the same step.
ReplayExchanges(t, tk, got, pos, used) ==
    IF DictUsed(exchanges) # used
    THEN Finish(t, tk, "on_reconnect", got, "changed", "")
    ELSE LET i == NextLive(exchanges, pos) IN
         IF i = 0
         THEN ReplayQueues(t, [tk EXCEPT !.len = DictUsed(queues)], got, 0,
                           DictUsed(queues))
         ELSE IF tk.len = 0
         THEN Finish(t, tk, "on_reconnect", got, "changed", "")
         ELSE Suspend(t, [tk EXCEPT !.pos = i, !.used = used, !.len = @ - 1,
                                     !.log = Append(@, <<"x", exchanges.entries[i].v>>)],
                      "on_reconnect", got,
                      Call("xhook", exchanges.entries[i].v, 0, 0), "xhook")

\* Channel.initialize of the base class: ask the connection for a channel and
\* wait for it.
BaseInitialize(t, tk, op, conn, num, fs) ==
    /\ futures' = Register(fs, t)
    /\ Suspend(t, tk, op, "none", Call("open", "", conn, num), "open")

\* history: a close() has torn the channel down and returned (lines 113-117
\* ran to the end: the handle reference is released and no close() is running)
CloseCompleted ==
    /\ closed
    /\ closeReqs > 0
    /\ channel = NoChannel
    /\ \A t \in Tasks : task[t].op # "close"

\* the previous closing signal left as it is
FailClosingSkipped == closings

\* lines 67-68: if not self._closing.done(): self._closing.set_exception(exc)
FailClosing ==
    [closings EXCEPT ![Len(closings)] = IF is_closed THEN @ ELSE "lost"]

\* ------------------------------------------------------------------ actions
\* on_reconnect that bulk-fails the registry only after initialize has
\* registered its open request
OnReconnectRejectsAfter(t, n) ==
    /\ Starts(t)
    /\ closings' = Append(FailClosing, "pending")
    /\ connection' = connection + 1
    /\ channel_number' = n
    /\ rejected' = reject_all(future_store).rejected \cup {t}
    /\ futures' = reject_all(future_store).futures
    /\ Suspend(t, [Idle EXCEPT !.gone = deleted, !.sig = Len(closings) + 1,
                                !.late = CloseCompleted],
               "on_reconnect", "none", Call("open", "", connection + 1, n), "open")
    /\ UNCHANGED <<closed, maps, qos, channel, write_lock, gen, closeHist,
                   qosReq, mapHist>>

\* on_reconnect(connection, channel_number), lines 64-75 up to the first
\* suspension inside initialize
OnReconnect(t, n) ==
    /\ Starts(t)
    /\ LET failed == FailClosing
           rej == reject_all(future_store)
       IN  /\ closings' = Append(failed, "pending")
           /\ rejected' = rej.rejected
           /\ connection' = connection + 1
           /\ channel_number' = n
           /\ BaseInitialize(t, [Idle EXCEPT !.gone = deleted,
                                              !.sig = Len(closings) + 1,
                                              !.late = CloseCompleted],
                             "on_reconnect",
                             connection + 1, n, rej.futures)
    /\ UNCHANGED <<closed, maps, qos, channel, write_lock, gen, closeHist,
                   qosReq, mapHist>>

\* initialize(), lines 83-84: super().initialize() is called in whatever state
\* the channel is in; the call is the owner's and is not one of the MaxOps
\* operations of the application and the connection manager
Initialize(t) ==
    /\ FreeSlot(t)
    /\ BaseInitialize(t, Idle, "initialize", connection, channel_number, futures)
    /\ UNCHANGED <<closed, maps, qos, chanRefs, rejected, gen, nops, closeHist,
                   qosReq, mapHist>>

\* initialize falling back to the default pair
RememberedQosDefault == [prefetch_count |-> 0, prefetch_size |-> 0]

\* the pair unpacked the wrong way round
RememberedQosSwapped == [prefetch_count |-> qos[2], prefetch_size |-> qos[1]]

\* initialize, line 86: prefetch_count, prefetch_size = self._qos
RememberedQos == [prefetch_count |-> qos[1], prefetch_size |-> qos[2]]

\* initialize, lines 84-91: the channel is open (or the open failed); the
\* remembered QoS pair goes through set_qos
OpenReply(t, o) ==
    /\ task[t].pc = "open"
    /\ Resolved(t, o)
    /\ rejected' = rejected \ {t}
    /\ IF o = "ok"
       THEN /\ channel' = [conn |-> connection, num |-> channel_number, st |-> "open"]
            /\ set_qos(t, task[t], task[t].op, o, RememberedQos.prefetch_count,
                       RememberedQos.prefetch_size, FALSE, TRUE, Consume(futures, t))
       ELSE /\ channel' = channel
            /\ qos' = qos
            /\ futures' = Consume(futures, t)
            /\ Finish(t, task[t], task[t].op, o, o, "")
    /\ UNCHANGED <<closed, maps, connection, channel_number, closings, write_lock,
                   gen, nops, closeHist, qosReq, mapHist>>

\* initialize, lines 88-93, and on_reconnect, lines 75-81: the QoS request
\* is answered; initialize returns and on_reconnect starts the replay
QosReply(t, o) ==
    /\ task[t].pc = "qos"
    /\ task[t].op \in {"initialize", "on_reconnect"}
    /\ Resolved(t, o)
    /\ rejected' = rejected \ {t}
    /\ futures' = Consume(futures, t)
    /\ IF o # "ok" \/ task[t].op = "initialize"
       THEN Finish(t, task[t], task[t].op, o, o, "")
       ELSE ReplayExchanges(t, [task[t] EXCEPT !.len = DictUsed(exchanges)], o, 0,
                            DictUsed(exchanges))
    /\ UNCHANGED <<closed, maps, qos, chanRefs, gen, nops, closeHist, qosReq,
                   mapHist>>

\* line 78: await exchange.on_reconnect(self) returns or raises
AfterExchangeHook(t, o) ==
    IF o = "ok"
    THEN ReplayExchanges(t, task[t], o, task[t].pos, task[t].used)
    ELSE Finish(t, task[t], "on_reconnect", o, o, "")

\* on_reconnect, lines 77-78: an exchange's recovery hook has ended
ExchangeHookReply(t, o) ==
    /\ task[t].pc = "xhook"
    /\ o \in {"ok", "err"}
    /\ AfterExchangeHook(t, o)
    /\ UNCHANGED <<closed, maps, qos, chanRefs, futures, rejected, gen, nops,
                   closeHist, qosReq, mapHist>>

\* a queue hook whose failure is swallowed and the loop goes on
AfterQueueHookSwallowed(t, o) ==
    ReplayQueues(t, task[t], o, task[t].pos, task[t].used)

\* line 81: await queue.on_reconnect(self) returns or raises
AfterQueueHook(t, o) ==
    IF o = "ok"
    THEN ReplayQueues(t, task[t], o, task[t].pos, task[t].used)
    ELSE Finish(t, task[t], "on_reconnect", o, o, "")

\* on_reconnect, lines 80-81: a queue's recovery hook has ended
QueueHookReply(t, o) ==
    /\ task[t].pc = "qhook"
    /\ o \in {"ok", "err"}
    /\ AfterQueueHook(t, o)
    /\ UNCHANGED <<closed, maps, qos, chanRefs, futures, rejected, gen, nops,
                   closeHist, qosReq, mapHist>>

\* set_qos(prefetch_count, prefetch_size, all_channels), lines 95-106
SetQos(t, p, q, all_channels) ==
    /\ Starts(t)
    /\ set_qos(t, [Idle EXCEPT !.all_channels = all_channels], "set_qos", "none",
               p, q, all_channels, BaseReady(channel, connection), futures)
    /\ qosReq' = IF all_channels THEN qosReq
                  ELSE [p |-> p, q |-> q,
                        by |-> IF BaseReady(channel, connection) THEN t ELSE 0]
    /\ UNCHANGED <<closed, maps, chanRefs, rejected, gen, closeHist, mapHist>>

\* set_qos, lines 102-106: the broker answered the application's request
SetQosReply(t, o) ==
    /\ task[t].pc = "qos"
    /\ task[t].op = "set_qos"
    /\ Resolved(t, o)
    /\ rejected' = rejected \ {t}
    /\ futures' = Consume(futures, t)
    /\ Finish(t, task[t], "set_qos", o, o, "")
    /\ qosReq' = IF qosReq.by = t THEN [qosReq EXCEPT !.by = 0] ELSE qosReq
    /\ UNCHANGED <<closed, maps, qos, chanRefs, gen, nops, closeHist, mapHist>>


\* close(), lines 108-116 up to the wait for the closing signal
Close(t) ==
    /\ Starts(t)
    /\ closeCalls' = TRUE
    /\ LET tk == [Idle EXCEPT !.late = closeCalls] IN
       IF is_closed
       THEN \* _ensure_channel_is_open refuses a channel whose closing signal is resolved
            /\ Finish(t, tk, "close", "none", "closed", "")
            /\ UNCHANGED <<closed, channel, write_lock, closeReqs>>
       ELSE IF closed
       THEN /\ Finish(t, tk, "close", "none", "ok", "")
            /\ UNCHANGED <<closed, channel, write_lock, closeReqs>>
       ELSE /\ write_lock = 0
            /\ closed' = TRUE
            /\ IF channel = NoChannel
               THEN \* self._channel is None: the call raises inside the write section
                    /\ Finish(t, tk, "close", "none", "nochannel", "")
                    /\ UNCHANGED <<channel, write_lock, closeReqs>>
               ELSE /\ channel' = [channel EXCEPT !.st = "closing"]
                    /\ closeReqs' = closeReqs + 1
                    /\ write_lock' = t
                    /\ Suspend(t, [tk EXCEPT !.sig = Len(closings)], "close", "none",
                               Call("close", "", channel.conn, channel.num), "closing")
    /\ UNCHANGED <<maps, qos, connection, channel_number, closings, futures,
                   rejected, gen, qosReq, mapHist>>

\* close() that leaves the write section held when the wait fails
CloseResumeKeepsLock(t) ==
    /\ task[t].pc = "closing"
    /\ closings[task[t].sig] # "pending"
    /\ IF closings[task[t].sig] = "ok"
       THEN /\ channel' = NoChannel
            /\ write_lock' = 0
            /\ Finish(t, task[t], "close", "ok", "ok", "")
       ELSE /\ channel' = channel
            /\ write_lock' = write_lock
            /\ Finish(t, task[t], "close", closings[task[t].sig],
                      closings[task[t].sig], "")
    /\ UNCHANGED <<closed, maps, qos, connection, channel_number, closings,
                   futures, rejected, gen, nops, closeHist, qosReq, mapHist>>

\* close(), lines 116-117: the awaited closing signal is resolved
CloseResume(t) ==
    /\ task[t].pc = "closing"
    /\ closings[task[t].sig] # "pending"
    /\ write_lock' = 0
    /\ IF closings[task[t].sig] = "ok"
       THEN /\ channel' = NoChannel
            /\ Finish(t, task[t], "close", "ok", "ok", "")
       ELSE /\ channel' = channel
            /\ Finish(t, task[t], "close", closings[task[t].sig],
                      closings[task[t].sig], "")
    /\ UNCHANGED <<closed, maps, qos, connection, channel_number, closings,
                   futures, rejected, gen, nops, closeHist, qosReq, mapHist>>

\* the broker confirms the close of the underlying handle: the base channel's
\* close callback resolves the current closing signal
ChannelClosed ==
    /\ channel.st = "closing"
    /\ channel.conn = connection
    /\ ~is_closed
    /\ channel' = [channel EXCEPT !.st = "closed"]
    /\ closings' = [closings EXCEPT ![Len(closings)] = "ok"]
    /\ ev' = NoEvent
    /\ UNCHANGED <<closed, maps, qos, connection, channel_number, write_lock,
                   futures, rejected, task, gen, nops, closeHist, qosReq, mapHist>>

\* declare_exchange(name, internal, robust), line 126
DeclareExchange(t, name, internal, robust) ==
    /\ Starts(t)
    /\ BaseRequest(t, [Idle EXCEPT !.name = name, !.internal = internal,
                                   !.robust = robust],
                   "declare_exchange", "none", Call("declare_exchange", name, 0, 0),
                   "declare_exchange", BaseReady(channel, connection), futures)
    /\ UNCHANGED <<closed, maps, qos, chanRefs, rejected, gen, closeHist, qosReq,
                   mapHist>>

\* registration that forgets to leave internal exchanges out
RecoverableInternal(internal, robust) == robust

\* line 132: if not internal and robust
Recoverable(internal, robust) == ~internal /\ robust

\* declare_exchange, lines 126-135
DeclareExchangeReply(t, o) ==
    /\ task[t].pc = "declare_exchange"
    /\ Resolved(t, o)
    /\ rejected' = rejected \ {t}
    /\ futures' = Consume(futures, t)
    /\ LET name == task[t].name IN
           /\ exchanges' = IF o = "ok" /\ Recoverable(task[t].internal, task[t].robust)
                           THEN DictSet(exchanges, name, name) ELSE exchanges
           /\ exDeclared' = IF o = "ok" /\ ~task[t].internal /\ task[t].robust
                            THEN exDeclared \cup {name} ELSE exDeclared
           /\ deleted' = IF o = "ok" THEN deleted \ {name} ELSE deleted
           /\ Finish(t, task[t], "declare_exchange", o, o, "")
    /\ UNCHANGED <<closed, queues, qos, chanRefs, gen, nops, closeHist, qosReq>>

\* exchange_delete(exchange_name), line 139
ExchangeDelete(t, name) ==
    /\ Starts(t)
    /\ BaseRequest(t, [Idle EXCEPT !.name = name], "exchange_delete", "none",
                   Call("exchange_delete", name, 0, 0), "exchange_delete",
                   BaseReady(channel, connection), futures)
    /\ UNCHANGED <<closed, maps, qos, chanRefs, rejected, gen, closeHist, qosReq,
                   mapHist>>

\* exchange_delete, lines 139-146
ExchangeDeleteReply(t, o) ==
    /\ task[t].pc = "exchange_delete"
    /\ Resolved(t, o)
    /\ rejected' = rejected \ {t}
    /\ futures' = Consume(futures, t)
    /\ LET name == task[t].name IN
       /\ exchanges' = IF o = "ok" THEN DictPop(exchanges, name) ELSE exchanges
       /\ exDeclared' = IF o = "ok" THEN exDeclared \ {name} ELSE exDeclared
       /\ deleted' = IF o = "ok" THEN deleted \cup {name} ELSE deleted
    /\ Finish(t, task[t], "exchange_delete", o, o, "")
    /\ UNCHANGED <<closed, queues, qos, chanRefs, gen, nops, closeHist, qosReq>>

\* declare_queue(name, robust), line 154; name is NoName for name=None
DeclareQueue(t, name, robust) ==
    /\ Starts(t)
    /\ BaseRequest(t, [Idle EXCEPT !.name = name, !.robust = robust],
                   "declare_queue", "none", Call("declare_queue", name, 0, 0),
                   "declare_queue", BaseReady(channel, connection), futures)
    /\ UNCHANGED <<closed, maps, qos, chanRefs, rejected, gen, closeHist, qosReq,
                   mapHist>>

\* the name of the queue the broker declared: the one asked for, or one it made
QueueName(name, n) == IF name = NoName THEN GenNames[n + 1] ELSE name

\* declare_queue, lines 154-163: queue is the declared Queue, whose name is
\* the resulting name
DeclareQueueReply(t, o) ==
    /\ task[t].pc = "declare_queue"
    /\ Resolved(t, o)
    /\ o = "ok" /\ task[t].name = NoName => gen < MaxGen
    /\ rejected' = rejected \ {t}
    /\ futures' = Consume(futures, t)
    /\ LET name == task[t].name
           queue == QueueName(name, gen)
       IN  /\ gen' = IF o = "ok" /\ name = NoName THEN gen + 1 ELSE gen
           /\ queues' = IF o = "ok" /\ task[t].robust
                        THEN DictSet(queues, name, queue) ELSE queues
           /\ deleted' = IF o = "ok" THEN deleted \ {queue} ELSE deleted
           /\ Finish(t, task[t], "declare_queue", o, o,
                     IF o = "ok" THEN queue ELSE "")
    /\ UNCHANGED <<closed, exchanges, qos, chanRefs, nops, closeHist, qosReq,
                   exDeclared>>

\* queue_delete(queue_name), line 168
QueueDelete(t, name) ==
    /\ Starts(t)
    /\ BaseRequest(t, [Idle EXCEPT !.name = name], "queue_delete", "none",
                   Call("queue_delete", name, 0, 0), "queue_delete",
                   BaseReady(channel, connection), futures)
    /\ UNCHANGED <<closed, maps, qos, chanRefs, rejected, gen, closeHist, qosReq,
                   mapHist>>

\* queue_delete that drops the name whatever the underlying delete answered
QueueDeleteReplyAlways(t, o) ==
    /\ task[t].pc = "queue_delete"
    /\ Resolved(t, o)
    /\ rejected' = rejected \ {t}
    /\ futures' = Consume(futures, t)
    /\ queues' = DictPop(queues, task[t].name)
    /\ deleted' = IF o = "ok" THEN deleted \cup {task[t].name} ELSE deleted
    /\ Finish(t, task[t], "queue_delete", o, o, "")
    /\ UNCHANGED <<closed, exchanges, qos, chanRefs, gen, nops, closeHist, qosReq,
                   exDeclared>>

\* queue_delete, lines 168-174
QueueDeleteReply(t, o) ==
    /\ task[t].pc = "queue_delete"
    /\ Resolved(t, o)
    /\ rejected' = rejected \ {t}
    /\ futures' = Consume(futures, t)
    /\ LET name == task[t].name IN
       /\ queues' = IF o = "ok" THEN DictPop(queues, name) ELSE queues
       /\ deleted' = IF o = "ok" THEN deleted \cup {name} ELSE deleted
    /\ Finish(t, task[t], "queue_delete", o, o, "")
    /\ UNCHANGED <<closed, exchanges, qos, chanRefs, gen, nops, closeHist, qosReq,
                   exDeclared>>

\* a sibling channel B on the same connection issues a request
SiblingRegister(b) ==
    /\ b \notin futures["B"]
    /\ b \notin rejected
    /\ nops < MaxOps
    /\ nops' = nops + 1
    /\ futures' = [futures EXCEPT !["B"] = @ \cup {b}]
    /\ ev' = NoEvent
    /\ UNCHANGED <<closed, maps, qos, chanRefs, rejected, task, gen,
                   closeHist, qosReq, mapHist>>

\* the sibling's request is answered, or its rejection is consumed
SiblingReply(b) ==
    /\ b \in futures["B"] \cup rejected
    /\ futures' = [futures EXCEPT !["B"] = @ \ {b}]
    /\ rejected' = rejected \ {b}
    /\ ev' = NoEvent
    /\ UNCHANGED <<closed, maps, qos, chanRefs, task, gen, nops, closeHist,
                   qosReq, mapHist>>

\* ------------------------------------------------------------------ system
\* __init__, lines 49-62: the state after construction
Init ==
    /\ closed = FALSE
    /\ exchanges = EmptyDict
    /\ queues = EmptyDict
    /\ qos = <<0, 0>>
    /\ connection = 0
    /\ channel_number = 1
    /\ channel = NoChannel
    /\ closings = <<"pending">>
    /\ write_lock = 0
    /\ futures = [c \in Stores |-> {}]
    /\ rejected = {}
    /\ task = [t \in Tasks |-> Idle]
    /\ gen = 0
    /\ nops = 0
    /\ closeReqs = 0
    /\ closeCalls = FALSE
    /\ qosReq = [p |-> 0, q |-> 0, by |-> 0]
    /\ exDeclared = {}
    /\ deleted = {}
    /\ ev = NoEvent

Replies == {"ok", "err", "lost"}

Next ==
    \/ \E t \in Tasks, n \in ChanNums : OnReconnect(t, n)
    \/ \E t \in Tasks : Initialize(t)
    \/ \E t \in Tasks, o \in Replies : OpenReply(t, o)
    \/ \E t \in Tasks, o \in Replies : QosReply(t, o)
    \/ \E t \in Tasks, o \in Replies : ExchangeHookReply(t, o)
    \/ \E t \in Tasks, o \in Replies : QueueHookReply(t, o)
    \/ \E t \in Tasks, p \in PrefetchCounts, q \in PrefetchSizes, a \in BOOLEAN :
           SetQos(t, p, q, a)
    \/ \E t \in Tasks, o \in Replies : SetQosReply(t, o)
    \/ \E t \in Tasks : Close(t)
    \/ \E t \in Tasks : CloseResume(t)
    \/ ChannelClosed
    \/ \E t \in Tasks, name \in ExchangeNames, i \in BOOLEAN, r \in BOOLEAN :
           DeclareExchange(t, name, i, r)
    \/ \E t \in Tasks, o \in Replies : DeclareExchangeReply(t, o)
    \/ \E t \in Tasks, name \in ExchangeNames : ExchangeDelete(t, name)
    \/ \E t \in Tasks, o \in Replies : ExchangeDeleteReply(t, o)
    \/ \E t \in Tasks, name \in QueueNames \cup {NoName}, r \in BOOLEAN :
           DeclareQueue(t, name, r)
    \/ \E t \in Tasks, o \in Replies : DeclareQueueReply(t, o)
    \/ \E t \in Tasks, name \in QueueNames \cup {GenNames[i] : i \in 1..gen} :
           QueueDelete(t, name)
    \/ \E t \in Tasks, o \in Replies : QueueDeleteReply(t, o)
    \/ \E b \in SiblingOps : SiblingRegister(b)
    \/ \E b \in SiblingOps : SiblingReply(b)

Spec == Init /\ [][Next]_vars

\* The event loop runs a coroutine whose awaited signal is resolved.
FairSpec == Spec /\ \A t \in Tasks : WF_vars(CloseResume(t))


\* ------------------------------------------------------------------ claims
IsReplay(tk) == tk.op = "on_reconnect"

\* the exchange hooks of a replay log come before its queue hooks
LogOrdered(l) ==
    \A i, j \in 1..Len(l) : i < j /\ l[i][1] = "q" => l[j][1] = "q"

C1_Step ==
    \A t \in Tasks :
       /\ IsReplay(task'[t]) /\ ~IsReplay(task[t]) =>
              /\ task'[t].pc = "open" /\ task'[t].log = <<>>
              /\ <<task'[t].p, task'[t].q>> = <<connection', channel_number'>>
       /\ IsReplay(task'[t]) => LogOrdered(task'[t].log)
       /\ IsReplay(task[t]) /\ task'[t] # task[t] =>
              /\ task[t].pc = "open" => task'[t].pc \in {"qos", "idle"}
              /\ task[t].pc = "qos" => task'[t].pc \in {"xhook", "qhook", "idle"}
              /\ task[t].pc = "xhook" => task'[t].pc \in {"xhook", "qhook", "idle"}
              /\ task[t].pc = "qhook" => task'[t].pc \in {"qhook", "idle"}
              /\ task'[t].pc \in {"open", "qos"} => task'[t].log = <<>>
              /\ task'[t].pc \in {"xhook", "qhook"} =>
                     /\ task'[t].got = "ok"
                     /\ Len(task'[t].log) = Len(task[t].log) + 1
              /\ task'[t].pc = "qhook" /\ task[t].pc # "qhook" =>
                     NextLive(exchanges,
                              IF task[t].pc = "xhook" THEN task[t].pos ELSE 0) = 0

\* C1: within one on_reconnect the order is open, QoS, the exchange hooks,
\* the queue hooks; a hook starts only when the await before it has returned,
\* and the first queue hook starts only when the exchange loop is exhausted.
C1_ReplayOrder == [][C1_Step]_vars

\* a replay that ran an exchange hook is now waiting for a queue hook
C1_Witness ==
    \E t \in Tasks :
       /\ IsReplay(task[t]) /\ task[t].pc = "qhook"
       /\ \E i \in 1..Len(task[t].log) : task[t].log[i][1] = "x"

C2_Step ==
    \A t \in Tasks :
       task[t].pc = "open" /\ task'[t] # task[t] =>
          \/ /\ task'[t].pc = "qos"
             /\ <<task'[t].p, task'[t].q>> = <<qosReq.p, qosReq.q>>
          \/ /\ task'[t].pc = "idle"
             /\ ev'.got # "ok"

\* C2: when initialize has opened the channel it sends a QoS request, and the
\* pair it sends is the last pair the application asked for, (0,0) when it
\* never asked.
C2_QosReplayed == [][C2_Step]_vars

\* a reconnect is replaying a pair the application asked for
C2_Witness ==
    \E t \in Tasks :
       /\ IsReplay(task[t]) /\ task[t].pc = "qos"
       /\ connection > 0
       /\ <<task[t].p, task[t].q>> = <<1, 2>>
       /\ qosReq.by = 0

\* C3: close() called again after close() issues no second underlying close
\* request and returns without error, and the closed flag stays set.
C3_CloseIdempotent ==
    /\ closeReqs <= 1
    /\ closeReqs > 0 => closed
    /\ ev.op = "close" /\ ev.late => ev.res = "ok"

\* C4: a queue declared with recovery enabled is in the recovery map under
\* its resulting name.
C4_KeyedByResultingName ==
    ev.op = "declare_queue" /\ ev.res = "ok" /\ ev.robust =>
        \E i \in 1..Len(queues.entries) :
           /\ queues.entries[i].live
           /\ queues.entries[i].k = ev.ret
           /\ queues.entries[i].v = ev.ret

C5_Step ==
    \A t \in Tasks :
       IsReplay(task'[t]) /\ task'[t].pc \in {"xhook", "qhook"}
           /\ task'[t].log # task[t].log =>
          task'[t].log[Len(task'[t].log)][2] \notin task'[t].gone \cap deleted

\* C5: an on_reconnect that begins after an entity was deleted, the entity
\* not being declared again, does not invoke that entity's recovery hook.
C5_DeletedNotRecovered == [][C5_Step]_vars

\* C6: the exchange recovery map holds exactly the names declared with
\* internal=false and recovery enabled and not deleted since.
C6_ExchangeMap == DictKeys(exchanges) = exDeclared

\* an exchange was registered and a successful delete has just removed it
C6_Witness ==
    /\ ev.op = "exchange_delete" /\ ev.res = "ok"
    /\ Len(exchanges.entries) > 0 /\ DictKeys(exchanges) = {}

C7_Step ==
    \A t \in Tasks :
       IsReplay(task'[t]) /\ ~IsReplay(task[t]) =>
          /\ futures[future_store] \subseteq rejected'
          /\ futures'[future_store] = {t}
          /\ futures'["B"] = futures["B"]
          /\ rejected' \cap SiblingOps = rejected \cap SiblingOps

\* C7: the first step of on_reconnect resolves every operation pending in the
\* channel's own registry with connection-lost and empties the registry (the
\* open request it then issues is the only entry); the pending operations of
\* the sibling channel stay pending.
C7_RejectScoped == [][C7_Step]_vars

\* a reconnect has just failed an operation of A while B has one pending
C7_Witness ==
    /\ \E t \in Tasks : IsReplay(task[t]) /\ task[t].pc = "open"
    /\ \E u \in Tasks : u \in rejected
    /\ futures["B"] # {}

\* C8: an on_reconnect that is still running has had no failure, and one that
\* got a failure ended there with that error.
C8_FailFast ==
    /\ \A t \in Tasks : IsReplay(task[t]) => task[t].got \in {"none", "ok"}
    /\ ev.op = "on_reconnect" /\ ev.got # "ok" => ev.res = ev.got

\* a queue hook failed and on_reconnect ended with its error
C8_Witness ==
    ev.op = "on_reconnect" /\ ev.at = "qhook" /\ ev.got = "err" /\ ev.res = "err"

C9_Step ==
    ev'.all_channels =>
        /\ qos' = qos
        /\ futures' = futures
        /\ rejected' = rejected
        /\ channel' = channel

\* C9: set_qos with all_channels=true ends with the unsupported-operation
\* error, never waits on the broker, and changes neither the stored pair nor
\* the registry.
C9_AllChannelsRejected ==
    /\ [](/\ \A t \in Tasks : ~task[t].all_channels
          /\ ev.all_channels => ev.op = "set_qos" /\ ev.res = "unsupported")
    /\ [][C9_Step]_vars

\* set_qos(all_channels=true) was refused on an open channel whose stored
\* pair is not the default
C9_Witness ==
    /\ ev.all_channels /\ ev.res = "unsupported"
    /\ qos = <<1, 2>>
    /\ BaseReady(channel, connection)

C10_Step ==
    \A t \in Tasks :
       /\ task'[t].op = "set_qos" /\ task[t].pc = "idle" /\ task'[t].pc = "qos" =>
              qos' = <<task'[t].p, task'[t].q>>
       /\ task[t].op = "set_qos" /\ qosReq.by = t /\ task'[t].pc = "idle" =>
              qos' = <<task[t].p, task[t].q>>
       /\ qosReq.by # 0 /\ IsReplay(task[t]) /\ task[t].pc = "open"
              /\ task'[t].pc = "qos" =>
              <<task'[t].p, task'[t].q>> =
                  <<task[qosReq.by].p, task[qosReq.by].q>>

\* C10: set_qos(p, q) has stored (p, q) when its underlying call is issued;
\* while that call is in flight and when it ends, failed or not, the stored
\* pair is (p, q), and a reconnect that replays meanwhile sends (p, q).
C10_RecordedBeforeCall ==
    /\ [](\A t \in Tasks :
             task[t].op = "set_qos" /\ qosReq.by = t =>
                 qos = <<task[t].p, task[t].q>>)
    /\ [][C10_Step]_vars

\* a set_qos was in flight when a reconnect began (its future is rejected)
\* and the reconnect is replaying its pair
C10_Witness ==
    \E t, u \in Tasks :
       /\ task[t].op = "set_qos" /\ t \in rejected
       /\ IsReplay(task[u]) /\ task[u].pc = "qos"
       /\ <<task[u].p, task[u].q>> = <<task[t].p, task[t].q>>
       /\ <<task[t].p, task[t].q>> = <<1, 2>>

\* C11: every closing signal other than the channel's current one is resolved:
\* at most one closing signal is live.
C11_OneLiveClosing ==
    \A i \in 1..(Len(closings) - 1) : closings[i] # "pending"

\* a second on_reconnect began while the first was still replaying, and the
\* signal the first had installed was failed
C11_Witness ==
    /\ Len(closings) >= 3
    /\ closings[2] = "lost"
    /\ \E t, u \in Tasks : t # u /\ IsReplay(task[t]) /\ IsReplay(task[u])

AppOps == {"set_qos", "declare_exchange", "exchange_delete", "declare_queue",
           "queue_delete"}

\* task t has sent a request of the application over the handle in this step
Dispatched(t) ==
    /\ task[t].pc = "idle"
    /\ task'[t].pc # "idle"
    /\ task'[t].op \in AppOps

\* the on_reconnect of the current connection has not had its QoS answered
QosNotApplied ==
    \E u \in Tasks :
       IsReplay(task[u]) /\ task[u].pc \in {"open", "qos"} /\ u \notin rejected

C12_Step ==
    \A t \in Tasks :
       Dispatched(t) /\ BaseReady(channel, connection) => ~QosNotApplied

\* C12: while the on_reconnect of the current connection has not yet had its
\* replayed QoS applied, no operation of the application is sent on the new
\* connection.
C12_NoDispatchBeforeQos == [][C12_Step]_vars

\* the on_reconnect of task t is the most recent one (sig is the closing
\* signal it installed)
MostRecent(t) == IsReplay(task[t]) /\ task[t].sig = Len(closings)

C13_Step ==
    \A t \in Tasks :
       MostRecent(t) /\ task'[t].pc = "idle" /\ ev'.res = "ok" =>
          /\ channel'.st = "open"
          /\ channel'.conn = connection'
          /\ channel'.num = channel_number'

\* C13: when the most recent on_reconnect returns successfully the channel
\* holds an open handle on the connection and channel number it was given.
C13_LiveHandleAfterReconnect == [][C13_Step]_vars

\* close() of task t is suspended on a closing signal that was failed
CloseInterrupted(t) ==
    task[t].pc = "closing" /\ closings[task[t].sig] = "lost"

C14_Step ==
    \A t \in Tasks :
       task[t].pc = "closing" =>
          /\ Len(closings') > Len(closings) /\ closings[task[t].sig] = "pending" =>
                 /\ closings'[task[t].sig] = "lost"
                 /\ task'[t] = task[t]
          /\ CloseInterrupted(t) /\ task'[t] # task[t] =>
                 /\ task'[t].pc = "idle"
                 /\ ev'.op = "close" /\ ev'.res = "lost"
                 /\ closed'
                 /\ write_lock' = 0

\* C14: an on_reconnect that begins while close() waits on the closing signal
\* fails that signal with connection-lost; the close() then ends, with that
\* error, with the closed flag still set and the write section released.
C14_CloseInterrupted ==
    /\ [][C14_Step]_vars
    /\ [](\A t \in Tasks : CloseInterrupted(t) => closed /\ write_lock = t)
    /\ \A t \in Tasks : CloseInterrupted(t) ~> (task[t].pc # "closing")

\* a close() interrupted by an on_reconnect has just ended with connection-lost
C14_Witness ==
    /\ ev.op = "close" /\ ev.res = "lost" /\ ev.at = "closing"
    /\ closed /\ write_lock = 0
    /\ Len(closings) > 1

\* an on_reconnect begins in this step
ReconnectBegins == Len(closings') > Len(closings)

C15_Step ==
    /\ \A t \in Tasks \cup SiblingOps :
          t \in rejected' /\ t \notin rejected =>
             /\ ReconnectBegins
             /\ t \in futures[future_store]
    /\ ReconnectBegins =>
          /\ closings'[Len(closings)] # "pending"
          /\ connection' # connection
          /\ futures'[future_store] \cap (futures[future_store] \cup rejected') = {}
    /\ \A t \in Tasks :
          task[t].pc \in {"open", "qos"} \cup AppOps /\ task'[t].pc = "idle"
              /\ ev'.res = "lost" => t \in rejected

\* C15: failing the closing signal, bulk-failing the registry and adopting the
\* new connection are one step; only operations pending before that step are
\* resolved with connection-lost, and what is registered afterwards (the open
\* request of the on_reconnect itself included) is not touched by it.
C15_RejectOnlyPending == [][C15_Step]_vars

\* while an on_reconnect is running on the new connection, an operation of
\* the application registered after it began has been answered by the broker
C15_Witness ==
    /\ \E u \in Tasks :
          MostRecent(u) /\ task[u].pc \in {"qos", "xhook", "qhook"}
              /\ u \notin rejected
    /\ ev.op \in AppOps /\ ev.got = "ok" /\ ev.res = "ok"

\* how many times hook e is in replay log l
Invocations(l, e) == Cardinality({i \in 1..Len(l) : l[i] = e})

\* the entities a recovery map holds
Remembered(d) ==
    {d.entries[i].v : i \in {j \in 1..Len(d.entries) : d.entries[j].live}}

C16_Step ==
    \A t \in Tasks :
       IsReplay(task[t]) /\ task'[t].pc = "idle" /\ ev'.res = "ok" =>
          /\ \A x \in Remembered(exchanges') :
                Invocations(task[t].log, <<"x", x>>) = 1
          /\ \A q \in Remembered(queues') :
                Invocations(task[t].log, <<"q", q>>) = 1

\* C16: an on_reconnect that returns successfully has invoked the recovery
\* hook of every exchange and queue of the recovery maps exactly once.
C16_EveryHookOnce == [][C16_Step]_vars

\* C17: when a close() that tore the channel down has completed, the exchange
\* and queue recovery maps are empty (so that a later on_reconnect has no hook
\* to invoke).
C17_TeardownEmptiesMaps ==
    ev.op = "close" /\ ev.at = "closing" /\ ev.res = "ok" =>
        Remembered(exchanges) = {} /\ Remembered(queues) = {}

\* map d becomes e by removing key k, if it is there, and nothing else
OnlyRemoved(d, e, k) ==
    /\ Len(e.entries) = Len(d.entries)
    /\ \A i \in 1..Len(d.entries) :
          IF d.entries[i].live /\ d.entries[i].k = k
          THEN ~e.entries[i].live
          ELSE e.entries[i] = d.entries[i]

C18_Step ==
    \A t \in Tasks :
       /\ task[t].pc = "exchange_delete" /\ task'[t] # task[t] =>
              /\ task'[t].pc = "idle"
              /\ ev'.op = "exchange_delete" /\ ev'.res = ev'.got
              /\ queues' = queues
              /\ IF ev'.got = "ok"
                 THEN OnlyRemoved(exchanges, exchanges', task[t].name)
                 ELSE exchanges' = exchanges
       /\ task[t].pc = "queue_delete" /\ task'[t] # task[t] =>
              /\ task'[t].pc = "idle"
              /\ ev'.op = "queue_delete" /\ ev'.res = ev'.got
              /\ exchanges' = exchanges
              /\ IF ev'.got = "ok"
                 THEN OnlyRemoved(queues, queues', task[t].name)
                 ELSE queues' = queues

\* C18: a delete whose underlying call fails returns that error and leaves
\* the recovery maps as they were; one that succeeds removes the given name,
\* if present, and changes no other entry.
C18_DeleteOnSuccessOnly == [][C18_Step]_vars

\* the delete of the only queue ever declared has failed and the queue is
\* still in the recovery map
C18_Witness ==
    /\ ev.op = "queue_delete" /\ ev.res = "err"
    /\ gen = 0
    /\ DictKeys(queues) = {"q1"}

C19_Step ==
    \A t \in Tasks :
       (IsReplay(task[t]) \/ IsReplay(task'[t])) /\ task'[t] # task[t] =>
          /\ DictKeys(exchanges') = DictKeys(exchanges)
          /\ DictKeys(queues') = DictKeys(queues)
          /\ qos' = qos

\* C19: no step of on_reconnect, whether it goes on, fails or returns,
\* changes the key sets of the recovery maps or the stored QoS pair.
C19_ReconnectKeepsDurableState == [][C19_Step]_vars

\* an on_reconnect has returned on a channel with a remembered entity and a
\* stored pair that is not the default
C19_Witness ==
    /\ ev.op = "on_reconnect" /\ ev.res = "ok"
    /\ ev.at \in {"xhook", "qhook"}
    /\ qos = <<1, 2>>

C20_Step ==
    \A t \in Tasks :
       IsReplay(task[t]) /\ task[t].late /\ task'[t] # task[t] =>
          /\ channel'.st # "open"
          /\ task'[t].pc \notin {"qos", "xhook", "qhook"}

\* C20: an on_reconnect that begins after close() has completed does not open
\* a handle on the closed channel and replays neither QoS nor entities on it.
C20_ClosedStaysClosed == [][C20_Step]_vars

====
